---- MODULE Spec2Model ----
(***************************************************************************)
(* Task control loop of just-every/MECH (the task engine's runTask and its *)
(* coupled process-wide state).  One run is an async generator; the        *)
(* actions below are the blocks of code the generator executes between two *)
(* suspension points (await / yield), which is the granularity at which    *)
(* the single-threaded runtime interleaves anything else.                  *)
(***************************************************************************)
EXTENDS Integers, Sequences, FiniteSets, TLC

\* ------------------------------------------------------------------ bounds
MaxRuns == 2          \* calls of runTask explored
MaxEvents == 2        \* events the transport may produce in total (Spec)
MaxRounds == 3        \* the backend ends a run by this iteration (Spec)
CeilingEvents == 1    \* events the transport may produce in total (SpecCeiling)
ShortRounds == 2      \* the backend ends a run by this iteration (SpecStart, SpecInject)
MaxCalls == 2         \* calls of addMessageToTask explored

\* ------------------------------------------------------- program constants
MaxIterations == 100  \* while (!isComplete && iteration < 100)

\* Generator handles that can be live at the same time.
Runs == {1, 2}

VARIABLES
    taskState,          \* process-wide tunable state (state.js)
    thoughtDelay,       \* configured pacing delay, a string of digits
    delayInterrupted,   \* shared interrupted flag of the pacing wait
    paused,             \* ensemble's pause gate
    activeTaskMessages, \* handles that have a live history
    pc,                 \* where each run's generator is suspended
    iteration,          \* local `iteration`
    isComplete,         \* local `isComplete`
    messages,           \* the run's conversation history
    cur,                \* the transport event being handled
    out,                \* events yielded to the consumer so far
    requests,           \* calls of ensembleRequest made by the run
    termAt,             \* iteration in which a terminal tool call was first seen
    exc,                \* cause of the exception caught by the run, if any
    lastMeta,           \* how the last spawnMetaThought call of the run ended
    startCount,         \* llmRequestCount when the run's generator started
    completed,          \* requests of the run whose stream was consumed to its end
    evBudget,           \* events the transport may still produce
    horizon,            \* iteration by which the backend ends a run
    runsLeft,           \* calls of runTask still to come
    transport,          \* events the backend can put in a stream
    logRounds,          \* iterations of a run that the logs follow
    agent,              \* the caller's agent object, as passed to runTask
    agentDef,           \* each run's cloned agent definition
    sent,               \* the history as it stood at each ensembleRequest call
    arrivals,           \* log of the messages that reached each run, in order
    produced,           \* the events the transport produced for each run, in order
    metaCalls,          \* calls of spawnMetaThought made by each run
    lastCall,           \* the latest call of runTask or addMessageToTask
    callsLeft           \* calls of addMessageToTask still to come

tunable == <<taskState, thoughtDelay, delayInterrupted, paused>>
local == <<pc, iteration, isComplete, messages, cur, out, activeTaskMessages>>
ghost == <<requests, termAt, exc, lastMeta, startCount, completed>>
env == <<evBudget, horizon, runsLeft, transport, logRounds>>
caller == <<agent, agentDef>>
logs == <<sent, arrivals, produced, metaCalls>>
calls == <<lastCall, callsLeft>>
vars == <<tunable, local, ghost, env, caller, logs, calls>>

\* ------------------------------------------------------------ conversions
Digits == {"0", "1", "2", "3", "4", "5", "6", "7", "8", "9"}

DigitVal(c) ==
    CASE c = "0" -> 0 [] c = "1" -> 1 [] c = "2" -> 2 [] c = "3" -> 3
      [] c = "4" -> 4 [] c = "5" -> 5 [] c = "6" -> 6 [] c = "7" -> 7
      [] c = "8" -> 8 [] c = "9" -> 9

RECURSIVE ParseDigits(_, _)
ParseDigits(s, acc) ==
    IF s = <<>> \/ Head(s) \notin Digits
    THEN acc
    ELSE ParseDigits(Tail(s), acc * 10 + DigitVal(Head(s)))

RECURSIVE SkipSpace(_)
SkipSpace(s) ==
    IF s # <<>> /\ Head(s) = " " THEN SkipSpace(Tail(s)) ELSE s

\* JavaScript parseInt on a string given as its sequence of characters:
\* leading blanks skipped, optional sign, then the longest run of digits;
\* NaN when there is no digit.
ParseInt(str) ==
    LET s == SkipSpace(str)
        signed == s # <<>> /\ Head(s) \in {"-", "+"}
        body == IF signed THEN Tail(s) ELSE s
    IN  IF body = <<>> \/ Head(body) \notin Digits
        THEN [nan |-> TRUE, val |-> 0]
        ELSE [nan |-> FALSE,
              val |-> IF signed /\ Head(s) = "-"
                      THEN 0 - ParseDigits(body, 0)
                      ELSE ParseDigits(body, 0)]

Abs(n) == IF n < 0 THEN 0 - n ELSE n

\* count % f === 0 for a non-negative count: false for NaN and for f = 0
\* (x % 0 is NaN), otherwise the remainder of the magnitudes.
RemIsZero(count, f) ==
    /\ ~f.nan
    /\ f.val # 0
    /\ count % Abs(f.val) = 0

\* delay > 0, false for NaN
IsPositive(d) == ~d.nan /\ d.val > 0

\* ----------------------------------------------------------------- events
Undefined == "undefined"
TerminalTools == {"task_complete", "task_fatal_error"}

Ev(type, tool, hasResult, output, hasMessage) ==
    [type |-> type, tool |-> tool, hasResult |-> hasResult,
     output |-> output, hasMessage |-> hasMessage, by |-> "transport"]

\* What the transport may put in a stream.
TransportEvents ==
    { Ev("tool_done", "task_complete", TRUE, "done", FALSE),
      Ev("tool_done", "task_fatal_error", TRUE, "", FALSE),
      Ev("tool_done", "task_complete", FALSE, Undefined, FALSE),
      Ev("tool_done", "other_tool", TRUE, "x", FALSE),
      Ev("response_output", Undefined, FALSE, Undefined, TRUE),
      Ev("error", Undefined, FALSE, Undefined, FALSE) }

\* A backend that answers with text or calls task_complete.
ReplyOrComplete ==
    { Ev("tool_done", "task_complete", TRUE, "done", FALSE),
      Ev("response_output", Undefined, FALSE, Undefined, TRUE) }

\* A backend that calls tools: the control tools with a result text, with an
\* empty one, or with a result that has no output, and a tool of the agent.
ToolCalls ==
    { Ev("tool_done", "task_complete", TRUE, "done", FALSE),
      Ev("tool_done", "task_complete", TRUE, "", FALSE),
      Ev("tool_done", "task_fatal_error", TRUE, Undefined, FALSE),
      Ev("tool_done", "other_tool", TRUE, "x", FALSE) }

NoEvent == Ev("none", Undefined, FALSE, Undefined, FALSE)

Causes == {"boom"}

\* Variant: the output is passed on as it is.
OutputOrEmpty_AsIs(e) == e.output
\* toolEvent.result?.output || ''
OutputOrEmpty(e) == IF e.output = Undefined THEN "" ELSE e.output

\* { type: toolName, result: toolEvent.result?.output || '' }
TerminalEvent(e) ==
    [type |-> e.tool, tool |-> Undefined, hasResult |-> TRUE,
     output |-> OutputOrEmpty(e), hasMessage |-> FALSE, by |-> "loop"]

\* { type: 'error', error: new Error(`Agent execution failed: ${errorMessage}`) }
ErrorEvent(cause) ==
    [type |-> "error", tool |-> Undefined, hasResult |-> FALSE,
     output |-> <<"Agent execution failed: ", cause>>, hasMessage |-> FALSE,
     by |-> "loop"]

\* event.type === 'tool_done' && 'result' in event, naming a control tool
IsTerminalToolCall(e) ==
    /\ e.type = "tool_done"
    /\ e.hasResult
    /\ e.tool \in TerminalTools

\* ------------------------------------------------------- JavaScript values
\* A value with its typeof tag; a string is its sequence of characters.
Str(chars) == [t |-> "string", v |-> chars]
Num(digits) == [t |-> "number", v |-> digits]
Undef == [t |-> "undefined", v |-> <<>>]
Null == [t |-> "null", v |-> <<>>]
Obj == [t |-> "object", v |-> <<>>]
Arr(elems) == [t |-> "array", v |-> elems]

\* !!x
Truthy(x) ==
    CASE x.t = "string" -> x.v # <<>>
      [] x.t = "number" -> x.v # <<"0">>
      [] x.t \in {"undefined", "null"} -> FALSE
      [] OTHER -> TRUE

RECURSIVE DropTrailingSpace(_)
DropTrailingSpace(s) ==
    IF s # <<>> /\ s[Len(s)] = " "
    THEN DropTrailingSpace(SubSeq(s, 1, Len(s) - 1))
    ELSE s

\* String.prototype.trim, blanks being the only white space of the inputs
Trim(s) == DropTrailingSpace(SkipSpace(s))

\* Array.prototype.includes / String.prototype.includes on a text kept as the
\* sequence of its words
Includes(s, w) == \E i \in 1..Len(s) : s[i] = w

\* ----------------------------------------------------------------- messages
DefaultContent == Str(<<"t", "a", "s", "k">>)

\* { type: 'message', role: 'user', content }
UserMessageOf(c) == [type |-> "message", role |-> "user", content |-> c.v]
UserMessage == UserMessageOf(DefaultContent)
AssistantMessage ==
    [type |-> "message", role |-> "assistant", content |-> <<"r", "e", "p", "l", "y">>]

\* -------------------------------------------------------------- the agent
\* const toolGuidance = 'You must complete tasks by using the provided tools.
\* When you have finished a task, you MUST call the task_complete tool ...'
ToolGuidance ==
    <<"You", "MUST", "call", "the", "task_complete", "tool", "or", "the",
      "task_fatal_error", "tool">>

\* getTaskTools()
TaskTools == <<"task_complete", "task_fatal_error">>

\* if (!agent.instructions?.includes('task_complete')) agent.instructions =
\*     agent.instructions ? `${agent.instructions}\n\n${toolGuidance}` : toolGuidance
EnsureGuidance(a) ==
    IF a.instructions.t = "string" /\ Includes(a.instructions.v, "task_complete")
    THEN a
    ELSE [a EXCEPT !.instructions =
            Str(IF Truthy(@) THEN @.v \o <<"\n\n">> \o ToolGuidance
                ELSE ToolGuidance)]

\* agentDef = cloneAgent(agent); agentDef.tools = [...taskTools, ...(agent.tools || [])]
CloneWithTaskTools(a) ==
    [instructions |-> a.instructions,
     tools |-> Arr(TaskTools \o (IF Truthy(a.tools) THEN a.tools.v ELSE <<>>))]

NoAgentDef == [instructions |-> Undef, tools |-> Undef]

\* The agents a caller may hold: with or without instructions, with
\* instructions that already speak of task_complete, with or without tools.
AgentInputs ==
    { [instructions |-> i, tools |-> t] :
        i \in { Undef, Str(<<"Be", "helpful">>),
                Str(<<"End", "with", "task_complete">>) },
        t \in { Undef, Arr(<<"search">>) } }

\* First arguments of runTask: the caller's agent object, or something else.
AgentArgs == { Obj, Null, Undef, Str(<<"a">>) }

\* Second arguments of runTask.
ContentArgs ==
    { DefaultContent, Str(<<" ", "t">>), Str(<<>>), Str(<<" ", " ">>),
      Num(<<"5">>), Undef }

\* !agent || typeof agent !== 'object'
AgentRejected(a) == ~Truthy(a) \/ a.t # "object"

\* !content || typeof content !== 'string' || content.trim().length === 0
ContentRejected(c) == ~Truthy(c) \/ c.t # "string" \/ Len(Trim(c.v)) = 0

\* --------------------------------------------------- addMessageToTask input
Roles == {"system", "user", "assistant", "developer"}

Msg(type, role, content) ==
    [t |-> "object", type |-> type, role |-> role, content |-> content]

\* Second arguments of addMessageToTask: type and role are the field's
\* string, or Undefined when the field is missing.
MessageArgs ==
    { Msg("message", "developer", Str(<<"n", "o", "t", "e">>)),
      Msg("message", "system", Str(<<" ">>)),
      Msg("text", "developer", Str(<<"n", "o", "t", "e">>)),
      Msg(Undefined, "user", Str(<<"n", "o", "t", "e">>)),
      Msg("message", "tool", Str(<<"n", "o", "t", "e">>)),
      Msg("message", Undefined, Str(<<"n", "o", "t", "e">>)),
      Msg("message", "developer", Str(<<>>)),
      Msg("message", "developer", Num(<<"5">>)),
      Msg("message", "developer", Undef),
      [t |-> "undefined", type |-> Undefined, role |-> Undefined, content |-> Undef] }

\* Those of them that pass the checks.
AcceptedMessageArgs ==
    { Msg("message", "developer", Str(<<"n", "o", "t", "e">>)),
      Msg("message", "system", Str(<<" ">>)) }

\* The checks of addMessageToTask on its message, in the order of the code:
\* the first that fails names the error.
MessageError(m) ==
    CASE m.t # "object" -> "Message must be a valid message object"
      [] m.type # "message" -> "Message must have type message"
      [] m.role \notin Roles -> "Message must have a valid role"
      [] ~Truthy(m.content) \/ m.content.t # "string" -> "Message must have string content"
      [] OTHER -> "none"

\* The message as it is stored in a history.
Stored(m) == [type |-> m.type, role |-> m.role, content |-> m.content.v]

\* First arguments of addMessageToTask: a handle returned by runTask, a
\* generator that runTask never returned, or nothing.
ForeignHandle == 0
NullHandle == 0 - 1
HandleArgs == {1, ForeignHandle, NullHandle}

\* Keys of the registry: the generator of a run and the wrapper returned to
\* the caller.
Inner(r) == <<"generator", r>>
Wrapped(r) == <<"wrappedGenerator", r>>

NoCall == [op |-> "none"]

\* ------------------------------------------------------------ tunable state
ValidFrequencies == { <<"1">>, <<"5">>, <<"1", "0">> }
ValidDelays == { <<"0">>, <<"2">> }

\* Values a caller may hand to the setters.
FrequencyArgs == ValidFrequencies \cup { <<"0">>, <<"7">>, <<"-", "5">> }
DelayArgs == ValidDelays \cup { <<"3">>, <<"-", "2">> }
MinScore == 0
MaxScore == 100
ScoreArgs == { 0 - 1, 0, 100, 101 }
ModelIds == { "model-a" }

\* Variant: any positive or zero integer is taken.
SetMetaFrequencyTo_AnyNumber(ts, v) ==
    IF ParseInt(v).val >= 0 THEN [ts EXCEPT !.metaFrequency = v] ELSE ts
\* setMetaFrequency(v): the value is committed when it is one of the listed
\* frequencies, and the state stays as it was otherwise.
SetMetaFrequencyTo(ts, v) ==
    IF v \in ValidFrequencies THEN [ts EXCEPT !.metaFrequency = v] ELSE ts

\* setThoughtDelay(v): committed when it is one of the listed delays.
SetThoughtDelayTo(d, v) == IF v \in ValidDelays THEN v ELSE d

\* setModelScore(id, score): committed when the score is within the range.
SetModelScoreTo(ts, id, score) ==
    IF score >= MinScore /\ score <= MaxScore
    THEN [ts EXCEPT !.modelScores =
            [m \in DOMAIN @ \cup {id} |-> IF m = id THEN score ELSE @[m]]]
    ELSE ts

\* getMetaFrequency(), getThoughtDelay(), getModelScore(id)
GetMetaFrequency(ts) == ts.metaFrequency
GetThoughtDelay(d) == d
GetModelScore(ts, id) ==
    IF id \in DOMAIN ts.modelScores THEN ts.modelScores[id] ELSE MinScore - 1

NoRun == [r \in Runs |-> 0]

\* The process before the first run, configured with meta frequency f and
\* thought delay d: the counter at 0, no scores, nothing disabled, nothing
\* paused, no handle given out.
InitWith(f, d) ==
    /\ taskState = [llmRequestCount |-> 0, metaFrequency |-> f,
                    modelScores |-> <<>>, disabledModels |-> {}]
    /\ thoughtDelay = d
    /\ delayInterrupted = FALSE
    /\ paused = FALSE
    /\ activeTaskMessages = {}
    /\ pc = [r \in Runs |-> "none"]
    /\ iteration = NoRun
    /\ isComplete = [r \in Runs |-> FALSE]
    /\ messages = [r \in Runs |-> <<>>]
    /\ cur = [r \in Runs |-> NoEvent]
    /\ out = [r \in Runs |-> <<>>]
    /\ requests = NoRun
    /\ termAt = NoRun
    /\ exc = [r \in Runs |-> "none"]
    /\ lastMeta = [r \in Runs |-> "none"]
    /\ startCount = NoRun
    /\ completed = NoRun
    /\ agentDef = [r \in Runs |-> NoAgentDef]
    /\ sent = [r \in Runs |-> <<>>]
    /\ arrivals = [r \in Runs |-> <<>>]
    /\ produced = [r \in Runs |-> <<>>]
    /\ metaCalls = NoRun
    /\ lastCall = NoCall

\* The configuration of the test suite: meta frequency '5', thought delay '0'.
InitState == InitWith(<<"5">>, <<"0">>)

\* The agent of the test suite: a name and a model class, no instructions, an
\* empty tool list.
TestAgent == [instructions |-> Undef, tools |-> Arr(<<>>)]

\* Runs one after the other against a backend that ends each of them.
Init ==
    /\ InitState
    /\ agent = TestAgent
    /\ evBudget = MaxEvents
    /\ horizon = MaxRounds
    /\ runsLeft = MaxRuns
    /\ transport = TransportEvents
    /\ logRounds = 0
    /\ callsLeft = 0

\* The same process, facing a backend that is free never to end the run.
InitCeiling ==
    /\ InitState
    /\ agent = TestAgent
    /\ evBudget = CeilingEvents
    /\ horizon = MaxIterations + 1
    /\ runsLeft = 1
    /\ transport = TransportEvents
    /\ logRounds = 0
    /\ callsLeft = 0

\* ------------------------------------------------------- the generator body
\* Variant: the ceiling tested with <= (one iteration too many).
LoopContinues_NoCeiling(r) == ~isComplete[r] /\ iteration[r] <= MaxIterations
\* Variant: the loop test forgets isComplete.
LoopContinues_IgnoresComplete(r) == iteration[r] < MaxIterations
\* while (!isComplete && iteration < 100)
LoopContinues(r) == ~isComplete[r] /\ iteration[r] < MaxIterations

\* const cleanup = () => { activeTaskMessages.delete(generator); ... }
Cleanup(r) == activeTaskMessages \ {Inner(r)}

\* Variant: a run that ends with neither completion nor exception yields an
\* error event of its own.
Finish_Announces(r) ==
    /\ pc' = [pc EXCEPT ![r] = "done"]
    /\ activeTaskMessages' = Cleanup(r)
    /\ out' = [out EXCEPT ![r] =
                 IF isComplete[r] \/ exc[r] # "none" THEN @
                 ELSE Append(@, ErrorEvent("exhausted"))]
\* The generator returns; the wrapper's finally runs cleanup().
Finish(r) ==
    /\ pc' = [pc EXCEPT ![r] = "done"]
    /\ activeTaskMessages' = Cleanup(r)
    /\ UNCHANGED out

\* The loop test, and on entry `iteration++` up to `await waitWhilePaused()`.
LoopTop(r) ==
    /\ lastMeta' = [lastMeta EXCEPT ![r] = "none"]
    /\ IF LoopContinues(r)
       THEN /\ iteration' = [iteration EXCEPT ![r] = @ + 1]
            /\ pc' = [pc EXCEPT ![r] = "gate"]
            /\ UNCHANGED <<activeTaskMessages, out>>
       ELSE /\ Finish(r)
            /\ UNCHANGED iteration


\* The logs follow a run through its first logRounds iterations.
Logged(r) == iteration[r] <= logRounds

\* for await (const event of ensembleRequest(messages, agentDef)): the call
Request(r) ==
    /\ pc' = [pc EXCEPT ![r] = "stream"]
    /\ requests' = [requests EXCEPT ![r] = @ + 1]
    /\ sent' = [sent EXCEPT ![r] = IF Logged(r) THEN Append(@, messages[r]) ELSE @]

\* Variant: the check made on the counter's value before the increment.
MetaDue_BeforeIncrement(n) ==
    RemIsZero(n - 1, ParseInt(taskState.metaFrequency))
\* taskState.llmRequestCount % metaFrequency === 0, on the value just incremented
MetaDue(n) == RemIsZero(n, ParseInt(taskState.metaFrequency))

\* Variant: the meta-cognition check made on the run's own iteration number.
IncrementAndCheck_OwnIterations(r) ==
    LET n == taskState.llmRequestCount + 1
    IN  /\ taskState' = [taskState EXCEPT !.llmRequestCount = n]
        /\ metaCalls' = [metaCalls EXCEPT ![r] =
                            IF MetaDue(iteration[r]) /\ Logged(r) THEN @ + 1 ELSE @]
        /\ IF MetaDue(iteration[r])
           THEN /\ pc' = [pc EXCEPT ![r] = "meta"]
                /\ UNCHANGED <<requests, sent>>
           ELSE Request(r)
\* Variant: the increment placed inside `if (iteration > 1)`.
IncrementAndCheck_SkipsFirst(r) ==
    LET n == taskState.llmRequestCount + (IF iteration[r] > 1 THEN 1 ELSE 0)
    IN  /\ taskState' = [taskState EXCEPT !.llmRequestCount = n]
        /\ metaCalls' = [metaCalls EXCEPT ![r] =
                            IF MetaDue(n) /\ Logged(r) THEN @ + 1 ELSE @]
        /\ IF MetaDue(n)
           THEN /\ pc' = [pc EXCEPT ![r] = "meta"]
                /\ UNCHANGED <<requests, sent>>
           ELSE Request(r)
\* taskState.llmRequestCount++, the meta-cognition check, then either the
\* await of spawnMetaThought or the request.
IncrementAndCheck(r) ==
    LET n == taskState.llmRequestCount + 1
    IN  /\ taskState' = [taskState EXCEPT !.llmRequestCount = n]
        /\ metaCalls' = [metaCalls EXCEPT ![r] =
                            IF MetaDue(n) /\ Logged(r) THEN @ + 1 ELSE @]
        /\ IF MetaDue(n)
           THEN /\ pc' = [pc EXCEPT ![r] = "meta"]
                /\ UNCHANGED <<requests, sent>>
           ELSE Request(r)

\* Variant: the exception is logged and the iteration tried again.
Caught_Retries(r, cause) ==
    /\ UNCHANGED out
    /\ exc' = [exc EXCEPT ![r] = cause]
    /\ pc' = [pc EXCEPT ![r] = "gate"]
\* catch (error) of the run: yield { type: 'error', error: new Error(...) }
Caught(r, cause) ==
    /\ out' = [out EXCEPT ![r] = Append(@, ErrorEvent(cause))]
    /\ exc' = [exc EXCEPT ![r] = cause]
    /\ pc' = [pc EXCEPT ![r] = "yieldErr"]

\* Variant: no try/catch around spawnMetaThought, its failure reaches the
\* run's catch.
AfterMeta_Propagates(r, threw) ==
    IF threw
    THEN Caught(r, "meta") /\ UNCHANGED <<requests, sent>>
    ELSE Request(r) /\ UNCHANGED <<out, exc>>
\* try { await spawnMetaThought(...) } catch (error) { console.error(...) }
\* and on to the request: a failure is logged and the loop goes on.
AfterMeta(r, threw) ==
    Request(r) /\ UNCHANGED <<out, exc>>

\* event.type === 'response_output' with a message
CarriesMessage(e) == e.type = "response_output" /\ e.hasMessage

\* An entry of the arrival log: the message, where it came from, the run's
\* iteration and number of requests at that moment, and whether the consumer
\* was then holding a response-output event the loop had not yet recorded.
Arrival(r, m, kind) ==
    [msg |-> m, kind |-> kind, iter |-> iteration[r], req |-> requests[r],
     held |-> pc[r] \in {"yield", "yieldTerm"} /\ CarriesMessage(cur[r])]

\* Variant: the assistant message replaces the history.
PushResponse_Replaces(r, e) ==
    messages' = [messages EXCEPT ![r] =
                   IF CarriesMessage(e) THEN <<AssistantMessage>> ELSE @]
\* if (event.type === 'response_output') { if (message) messages.push(message) }
PushResponse(r, e) ==
    messages' = [messages EXCEPT ![r] =
                   IF CarriesMessage(e) THEN Append(@, AssistantMessage) ELSE @]

\* ------------------------------------------------------------------ actions
\* runTask(agent, content): the history is seeded and the handle registered.
\* A handle whose run is over is taken again for a later call: the new
\* generator starts from fresh locals, the process-wide state is what the
\* earlier runs left.
RunTaskWith(r, c) ==
    /\ pc[r] \in {"none", "done"}
    /\ runsLeft > 0
    /\ runsLeft' = runsLeft - 1
    /\ agent' = EnsureGuidance(agent)
    /\ pc' = [pc EXCEPT ![r] = "created"]
    /\ messages' = [messages EXCEPT ![r] = <<UserMessageOf(c)>>]
    /\ activeTaskMessages' =
          ((activeTaskMessages \cup {Inner(r)}) \cup {Wrapped(r)}) \ {Inner(r)}
    /\ agentDef' = [agentDef EXCEPT ![r] = NoAgentDef]
    /\ sent' = [sent EXCEPT ![r] = <<>>]
    /\ produced' = [produced EXCEPT ![r] = <<>>]
    /\ metaCalls' = [metaCalls EXCEPT ![r] = 0]
    /\ arrivals' = [arrivals EXCEPT ![r] =
                      <<[msg |-> UserMessageOf(c), kind |-> "user", iter |-> 0,
                         req |-> 0, held |-> FALSE]>>]
    /\ lastCall' = [op |-> "runTask", handle |-> r, agentArg |-> Obj,
                    content |-> c, result |-> "ok"]
    /\ iteration' = [iteration EXCEPT ![r] = 0]
    /\ isComplete' = [isComplete EXCEPT ![r] = FALSE]
    /\ cur' = [cur EXCEPT ![r] = NoEvent]
    /\ out' = [out EXCEPT ![r] = <<>>]
    /\ requests' = [requests EXCEPT ![r] = 0]
    /\ termAt' = [termAt EXCEPT ![r] = 0]
    /\ exc' = [exc EXCEPT ![r] = "none"]
    /\ lastMeta' = [lastMeta EXCEPT ![r] = "none"]
    /\ startCount' = [startCount EXCEPT ![r] = 0]
    /\ completed' = [completed EXCEPT ![r] = 0]
    /\ UNCHANGED <<tunable, evBudget, horizon, transport, logRounds, callsLeft>>

\* runTask(agent, 'task')
RunTask(r) == RunTaskWith(r, DefaultContent)

\* Variant: the arguments are checked after the instructions are completed.
RunTaskThrows_AfterGuidance(a, c) ==
    /\ runsLeft > 0
    /\ runsLeft' = runsLeft - 1
    /\ lastCall' = [op |-> "runTask", handle |-> NullHandle, agentArg |-> a,
                    content |-> c, result |-> "validation"]
    /\ agent' = IF AgentRejected(a) THEN agent ELSE EnsureGuidance(agent)
    /\ UNCHANGED <<tunable, local, ghost, evBudget, horizon, transport,
                   logRounds, agentDef, logs, callsLeft>>
\* runTask(a, c) with an argument that fails the basic validation: the throw
\* comes before anything else is done.
RunTaskThrows(a, c) ==
    /\ runsLeft > 0
    /\ runsLeft' = runsLeft - 1
    /\ lastCall' = [op |-> "runTask", handle |-> NullHandle, agentArg |-> a,
                    content |-> c, result |-> "validation"]
    /\ UNCHANGED <<tunable, local, ghost, evBudget, horizon, transport,
                   logRounds, caller, logs, callsLeft>>

\* runTask(a, c) with any arguments; a valid call is made while no run is in
\* progress.
RunTaskCall ==
    \E a \in AgentArgs, c \in ContentArgs :
        IF AgentRejected(a) \/ ContentRejected(c)
        THEN RunTaskThrows(a, c)
        ELSE /\ \A q \in Runs : pc[q] \in {"none", "done"}
             /\ RunTaskWith(1, c)

\* runTask called while no run is in progress.
RunTaskAlone ==
    /\ \A q \in Runs : pc[q] \in {"none", "done"}
    /\ RunTask(1)

\* Variant: the generator zeroes the request counter when it starts.
Begin_ResetsCounter(r) ==
    /\ pc[r] = "created"
    /\ startCount' = [startCount EXCEPT ![r] = 0]
    /\ taskState' = [taskState EXCEPT !.llmRequestCount = 0]
    /\ agentDef' = [agentDef EXCEPT ![r] = CloneWithTaskTools(agent)]
    /\ LoopTop(r)
    /\ UNCHANGED <<thoughtDelay, delayInterrupted, paused, isComplete, messages,
                   cur, requests, termAt, exc, completed, env, agent, logs, calls>>
\* The consumer's first next(): the body runs to `await waitWhilePaused()`.
Begin(r) ==
    /\ pc[r] = "created"
    /\ startCount' = [startCount EXCEPT ![r] = taskState.llmRequestCount]
    /\ agentDef' = [agentDef EXCEPT ![r] = CloneWithTaskTools(agent)]
    /\ LoopTop(r)
    /\ UNCHANGED <<tunable, isComplete, messages, cur, requests, termAt, exc,
                   completed, env, agent, logs, calls>>

\* Variant: the delay applied in the first iteration too.
DelayDue_FirstToo(r) == IsPositive(ParseInt(thoughtDelay))
\* if (iteration > 1) { const delay = parseInt(getThoughtDelay()); if (delay > 0)
DelayDue(r) == iteration[r] > 1 /\ IsPositive(ParseInt(thoughtDelay))

\* await runThoughtDelay(): the interrupted flag is reset and the wait begins.
StartDelay(r) ==
    /\ pc' = [pc EXCEPT ![r] = "delaying"]
    /\ delayInterrupted' = FALSE

\* Variant: the counter is incremented before the pacing wait.
GateOpen_IncrementBeforeDelay(r) ==
    /\ pc[r] = "gate"
    /\ ~paused
    /\ IF DelayDue(r)
       THEN /\ StartDelay(r)
            /\ taskState' = [taskState EXCEPT !.llmRequestCount = @ + 1]
            /\ UNCHANGED <<requests, sent, metaCalls>>
       ELSE /\ IncrementAndCheck(r)
            /\ UNCHANGED delayInterrupted
    /\ UNCHANGED <<thoughtDelay, paused, activeTaskMessages, iteration, isComplete,
                   messages, cur, out, termAt, exc, lastMeta, startCount,
                   completed, env, caller, arrivals, produced, calls>>
\* waitWhilePaused() resolves: the thought delay, or straight on.
GateOpen(r) ==
    /\ pc[r] = "gate"
    /\ ~paused
    /\ IF DelayDue(r)
       THEN /\ StartDelay(r)
            /\ UNCHANGED <<taskState, requests, sent, metaCalls>>
       ELSE /\ IncrementAndCheck(r)
            /\ UNCHANGED delayInterrupted
    /\ UNCHANGED <<thoughtDelay, paused, activeTaskMessages, iteration, isComplete,
                   messages, cur, out, termAt, exc, lastMeta, startCount,
                   completed, env, caller, arrivals, produced, calls>>

\* Variant: after the wait the iteration starts over at the pause gate.
DelayReturn_BackToGate(r) ==
    /\ pc[r] = "delaying"
    /\ pc' = [pc EXCEPT ![r] = "gate"]
    /\ UNCHANGED <<tunable, activeTaskMessages, iteration, isComplete, messages,
                   cur, out, ghost, env, caller, logs, calls>>
\* runThoughtDelay() resolves: the timer ran out, or the wait was interrupted.
DelayReturn(r) ==
    /\ pc[r] = "delaying"
    /\ IncrementAndCheck(r)
    /\ UNCHANGED <<thoughtDelay, delayInterrupted, paused, activeTaskMessages,
                   iteration, isComplete, messages, cur, out, termAt, exc,
                   lastMeta, startCount, completed, env, caller, arrivals, produced, calls>>

\* spawnMetaThought settles: it returns, possibly having revised the meta
\* frequency, or it throws having revised nothing.
MetaReturn(r) ==
    /\ pc[r] = "meta"
    /\ \E threw \in BOOLEAN :
         /\ lastMeta' = [lastMeta EXCEPT ![r] = IF threw THEN "threw" ELSE "ok"]
         /\ \E f \in (IF threw THEN {} ELSE ValidFrequencies) \cup {taskState.metaFrequency} :
              taskState' = [taskState EXCEPT !.metaFrequency = f]
         /\ AfterMeta(r, threw)
    /\ UNCHANGED <<thoughtDelay, delayInterrupted, paused, activeTaskMessages,
                   iteration, isComplete, messages, cur, termAt, startCount,
                   completed, env, caller, arrivals, produced, metaCalls, calls>>

\* Variant: a call of a control tool is not passed on, only the event made
\* for it is.
YieldEvent_HidesControlCalls(r, e) ==
    out' = [out EXCEPT ![r] = IF IsTerminalToolCall(e) THEN @ ELSE Append(@, e)]
\* yield event (and the wrapper's yield of the same event)
YieldEvent(r, e) == out' = [out EXCEPT ![r] = Append(@, e)]

\* The transport produces an event; the loop yields it to the consumer.
TransportYield(r) ==
    /\ pc[r] = "stream"
    /\ evBudget > 0
    /\ \E e \in transport :
         /\ cur' = [cur EXCEPT ![r] = e]
         /\ produced' = [produced EXCEPT ![r] = Append(@, e)]
         /\ YieldEvent(r, e)
         /\ arrivals' = [arrivals EXCEPT ![r] =
                           IF CarriesMessage(e) /\ Logged(r)
                           THEN Append(@, Arrival(r, AssistantMessage, "assistant"))
                           ELSE @]
    /\ pc' = [pc EXCEPT ![r] = "yield"]
    /\ evBudget' = evBudget - 1
    /\ UNCHANGED <<tunable, activeTaskMessages, iteration, isComplete, messages,
                   ghost, horizon, runsLeft, transport, logRounds, caller,
                   sent, metaCalls, calls>>

\* The consumer asks for more after a passed-through event: the tool-call
\* check, with the synthesized terminal event, or the history update.
ResumeEvent(r) ==
    /\ pc[r] = "yield"
    /\ IF IsTerminalToolCall(cur[r])
       THEN /\ isComplete' = [isComplete EXCEPT ![r] = TRUE]
            /\ out' = [out EXCEPT ![r] = Append(@, TerminalEvent(cur[r]))]
            /\ termAt' = [termAt EXCEPT ![r] = IF @ = 0 THEN iteration[r] ELSE @]
            /\ pc' = [pc EXCEPT ![r] = "yieldTerm"]
            /\ UNCHANGED messages
       ELSE /\ PushResponse(r, cur[r])
            /\ pc' = [pc EXCEPT ![r] = "stream"]
            /\ UNCHANGED <<isComplete, out, termAt>>
    /\ UNCHANGED <<tunable, activeTaskMessages, iteration, cur, requests, exc,
                   lastMeta, startCount, completed, env, caller, logs, calls>>

\* The consumer asks for more after the synthesized terminal event.
ResumeTerminal(r) ==
    /\ pc[r] = "yieldTerm"
    /\ PushResponse(r, cur[r])
    /\ pc' = [pc EXCEPT ![r] = "stream"]
    /\ UNCHANGED <<tunable, activeTaskMessages, iteration, isComplete, cur, out,
                   ghost, env, caller, logs, calls>>

\* The transport's stream ends: back to the loop test.
TransportEnd(r) ==
    /\ pc[r] = "stream"
    /\ isComplete[r] \/ iteration[r] < horizon
    /\ completed' = [completed EXCEPT ![r] = @ + 1]
    /\ LoopTop(r)
    /\ UNCHANGED <<tunable, isComplete, messages, cur, requests, termAt, exc,
                   startCount, env, caller, logs, calls>>

\* ensembleRequest, or its stream, throws.
TransportThrow(r) ==
    /\ pc[r] = "stream"
    /\ \E cause \in Causes : Caught(r, cause)
    /\ UNCHANGED <<tunable, activeTaskMessages, iteration, isComplete, messages,
                   cur, requests, termAt, lastMeta, startCount, completed, env,
                   caller, logs, calls>>

\* The consumer asks for more after the error event: the generator returns.
ResumeError(r) ==
    /\ pc[r] = "yieldErr"
    /\ Finish(r)
    /\ UNCHANGED <<tunable, iteration, isComplete, messages, cur, ghost, env,
                   caller, logs, calls>>

\* ----------------------------------------------------------- addMessageToTask
\* activeTaskMessages.get(taskGenerator): the caller holds the wrapper that
\* runTask returned, or a generator that runTask never returned.
Found(h) == h \in Runs /\ Wrapped(h) \in activeTaskMessages

\* if (!taskGenerator) throw ...; then the checks of the message
ArgumentError(h, m) ==
    IF h = NullHandle THEN "Task generator is required" ELSE MessageError(m)

\* Variant: the handle is looked up before the message is validated.
AddOutcome_LookupFirst(h, m) ==
    IF h # NullHandle /\ ~Found(h) THEN "not_found"
    ELSE IF ArgumentError(h, m) # "none" THEN "validation"
    ELSE "ok"
\* How a call of addMessageToTask ends: a validation error, the not-found
\* error of the lookup, or the push.
AddOutcome(h, m) ==
    IF ArgumentError(h, m) # "none" THEN "validation"
    ELSE IF ~Found(h) THEN "not_found"
    ELSE "ok"

\* Variant: the message is put at the front of the history.
Push_AtFront(r, m) == messages' = [messages EXCEPT ![r] = <<Stored(m)>> \o @]
\* Variant: the message is pushed onto a copy of the history.
Push_OntoCopy(r, m) == UNCHANGED messages
\* messages.push(message)
Push(r, m) == messages' = [messages EXCEPT ![r] = Append(@, Stored(m))]

\* addMessageToTask(h, m), called by anyone at any moment.
AddMessageToTask(h, m) ==
    /\ callsLeft > 0
    /\ callsLeft' = callsLeft - 1
    /\ lastCall' = [op |-> "addMessageToTask", handle |-> h, message |-> m,
                    live |-> h \in Runs /\ pc[h] \notin {"none", "done"},
                    result |-> AddOutcome(h, m)]
    /\ IF AddOutcome(h, m) = "ok"
       THEN /\ Push(h, m)
            /\ arrivals' = [arrivals EXCEPT ![h] =
                              IF Logged(h)
                              THEN Append(@, Arrival(h, Stored(m), "injected"))
                              ELSE @]
       ELSE UNCHANGED <<messages, arrivals>>
    /\ UNCHANGED <<tunable, pc, iteration, isComplete, cur, out,
                   activeTaskMessages, ghost, env, caller, sent, produced,
                   metaCalls>>

\* The consumer gives the handle up before the stream has ended: return() on
\* the wrapper, suspended at a yield (its finally runs cleanup()) or never
\* started (nothing runs).
Dispose(r) ==
    /\ pc[r] \in {"created", "yield", "yieldTerm", "yieldErr"}
    /\ pc' = [pc EXCEPT ![r] = "done"]
    /\ activeTaskMessages' =
          IF pc[r] = "created" THEN activeTaskMessages ELSE Cleanup(r)
    /\ UNCHANGED <<tunable, iteration, isComplete, messages, cur, out, ghost,
                   env, caller, logs, calls>>

\* ------------------------------------------------------------- environment
Pause ==
    /\ ~paused
    /\ paused' = TRUE
    /\ UNCHANGED <<taskState, thoughtDelay, delayInterrupted, local, ghost, env, caller, logs, calls>>

Resume ==
    /\ paused
    /\ paused' = FALSE
    /\ UNCHANGED <<taskState, thoughtDelay, delayInterrupted, local, ghost, env, caller, logs, calls>>

SetDelayInterrupted ==
    /\ \E b \in BOOLEAN : delayInterrupted' = b /\ b # delayInterrupted
    /\ UNCHANGED <<taskState, thoughtDelay, paused, local, ghost, env, caller, logs, calls>>

SetThoughtDelay ==
    /\ \E d \in ValidDelays : thoughtDelay' = d /\ d # thoughtDelay
    /\ UNCHANGED <<taskState, delayInterrupted, paused, local, ghost, env, caller, logs, calls>>

SetMetaFrequency ==
    /\ \E f \in ValidFrequencies :
         /\ f # taskState.metaFrequency
         /\ taskState' = [taskState EXCEPT !.metaFrequency = f]
    /\ UNCHANGED <<thoughtDelay, delayInterrupted, paused, local, ghost, env, caller, logs, calls>>

\* A setter called with any value: the call is recorded with how it ended.
CallSetMetaFrequency(v) ==
    /\ callsLeft > 0
    /\ callsLeft' = callsLeft - 1
    /\ taskState' = SetMetaFrequencyTo(taskState, v)
    /\ lastCall' = [op |-> "setMetaFrequency", arg |-> v,
                    result |-> IF v \in ValidFrequencies THEN "ok" ELSE "validation"]
    /\ UNCHANGED <<thoughtDelay, delayInterrupted, paused, local, ghost, env,
                   caller, logs>>

CallSetThoughtDelay(v) ==
    /\ callsLeft > 0
    /\ callsLeft' = callsLeft - 1
    /\ thoughtDelay' = SetThoughtDelayTo(thoughtDelay, v)
    /\ lastCall' = [op |-> "setThoughtDelay", arg |-> v,
                    result |-> IF v \in ValidDelays THEN "ok" ELSE "validation"]
    /\ UNCHANGED <<taskState, delayInterrupted, paused, local, ghost, env,
                   caller, logs>>

CallSetModelScore(id, score) ==
    /\ callsLeft > 0
    /\ callsLeft' = callsLeft - 1
    /\ taskState' = SetModelScoreTo(taskState, id, score)
    /\ lastCall' = [op |-> "setModelScore", id |-> id, arg |-> score,
                    result |-> IF score >= MinScore /\ score <= MaxScore
                               THEN "ok" ELSE "validation"]
    /\ UNCHANGED <<thoughtDelay, delayInterrupted, paused, local, ghost, env,
                   caller, logs>>

Step(r) ==
    \/ Begin(r)
    \/ GateOpen(r)
    \/ DelayReturn(r)
    \/ MetaReturn(r)
    \/ TransportYield(r)
    \/ ResumeEvent(r)
    \/ ResumeTerminal(r)
    \/ TransportEnd(r)
    \/ TransportThrow(r)
    \/ ResumeError(r)

\* The steps of a run in a process where meta-cognition is never due: the
\* frequency stays '10' and fewer than ten requests are made in all.
StepWithoutMeta(r) ==
    \/ Begin(r)
    \/ GateOpen(r)
    \/ DelayReturn(r)
    \/ TransportYield(r)
    \/ ResumeEvent(r)
    \/ ResumeTerminal(r)
    \/ TransportEnd(r)
    \/ TransportThrow(r)
    \/ ResumeError(r)

\* Runs one after the other, with the settings the loop reads.
Next ==
    \/ RunTaskAlone
    \/ \E r \in Runs : Step(r)
    \/ SetThoughtDelay
    \/ SetMetaFrequency

Spec == Init /\ [][Next]_vars

\* A single run against a backend that need never end it, with the pause gate.
NextCeiling ==
    \/ RunTaskAlone
    \/ \E r \in Runs : Step(r)
    \/ Pause
    \/ Resume
    \/ SetThoughtDelay

SpecCeiling == InitCeiling /\ [][NextCeiling]_vars

\* Callers with any agent and any arguments, one run at a time, in a process
\* configured with a thought delay of 2, against a backend that answers with
\* text or completes the task.
InitStart ==
    /\ InitWith(<<"1", "0">>, <<"2">>)
    /\ agent \in AgentInputs
    /\ evBudget = CeilingEvents
    /\ horizon = ShortRounds
    /\ runsLeft = MaxRuns
    /\ transport = ReplyOrComplete
    /\ logRounds = 0
    /\ callsLeft = 0

NextStart ==
    \/ RunTaskCall
    \/ \E r \in Runs : StepWithoutMeta(r)

SpecStart == InitStart /\ [][NextStart]_vars

\* One run, with valid messages injected and the handle given up at any
\* moment, in a process configured with a thought delay of 2, against a
\* backend that answers with text or completes the task.
InitInject ==
    /\ InitWith(<<"1", "0">>, <<"2">>)
    /\ agent = TestAgent
    /\ evBudget = CeilingEvents
    /\ horizon = ShortRounds
    /\ runsLeft = 1
    /\ transport = ReplyOrComplete
    /\ logRounds = ShortRounds
    /\ callsLeft = MaxCalls

NextInject ==
    \/ RunTaskAlone
    \/ \E r \in Runs : StepWithoutMeta(r)
    \/ \E h \in {1, ForeignHandle}, m \in AcceptedMessageArgs :
          AddMessageToTask(h, m)
    \/ \E r \in Runs : Dispose(r)

SpecInject == InitInject /\ [][NextInject]_vars

\* The same run, with addMessageToTask called with any arguments.
NextMessages ==
    \/ RunTaskAlone
    \/ \E r \in Runs : StepWithoutMeta(r)
    \/ \E h \in HandleArgs, m \in MessageArgs : AddMessageToTask(h, m)

SpecMessages == InitInject /\ [][NextMessages]_vars

\* One run, with the setters called with any value at any moment.
InitSettings ==
    /\ InitState
    /\ agent = TestAgent
    /\ evBudget = CeilingEvents
    /\ horizon = ShortRounds
    /\ runsLeft = 1
    /\ transport = ReplyOrComplete
    /\ logRounds = 0
    /\ callsLeft = MaxCalls

NextSettings ==
    \/ RunTaskAlone
    \/ \E r \in Runs : Step(r)
    \/ \E v \in FrequencyArgs : CallSetMetaFrequency(v)
    \/ \E v \in DelayArgs : CallSetThoughtDelay(v)
    \/ \E id \in ModelIds, v \in ScoreArgs : CallSetModelScore(id, v)
    \/ SetDelayInterrupted

SpecSettings == InitSettings /\ [][NextSettings]_vars

\* ------------------------------------------------------------------ claims
Last(s) == s[Len(s)]

\* An event the loop made itself: task_complete, task_fatal_error or error.
IsMarker(e) ==
    /\ e.by = "loop"
    /\ e.type \in {"task_complete", "task_fatal_error", "error"}

Markers(s) == {i \in 1..Len(s) : IsMarker(s[i])}

\* The run went through all its iterations with neither a terminal tool call
\* nor an exception.
Exhausted(r) ==
    /\ completed[r] = 100
    /\ termAt[r] = 0
    /\ exc[r] = "none"

Count == taskState.llmRequestCount

\* C1: a run that ended without reaching the iteration ceiling yielded exactly
\* one terminal marker (task_complete, task_fatal_error or error).
C1_ExactlyOneMarker ==
    \A r \in Runs :
        (pc[r] = "done" /\ ~Exhausted(r)) => Cardinality(Markers(out[r])) = 1

\* C2: in a run that ended without reaching the ceiling, the terminal marker
\* is the final event: nothing was yielded after a marker.
C2_MarkerIsLast ==
    \A r \in Runs :
        (pc[r] = "done" /\ ~Exhausted(r)) =>
            /\ out[r] # <<>>
            /\ IsMarker(Last(out[r]))
            /\ \A i \in Markers(out[r]) : i = Len(out[r])

C4_AtMost100Requests ==
    \A r \in Runs : requests[r] <= 100

\* The hundredth request of a run has been issued.
C4_Witness ==
    \E r \in Runs : requests[r] = 100 /\ pc[r] = "stream"

\* C5: a run that went through 100 iterations without a terminal tool call and
\* without an exception ended without any event made by the loop.
C5_SilentExhaustion ==
    \A r \in Runs :
        (pc[r] = "done" /\ Exhausted(r)) =>
            \A i \in 1..Len(out[r]) : out[r][i].by # "loop"

\* A run has ended by running out of iterations.
C5_Witness ==
    \E r \in Runs : pc[r] = "done" /\ Exhausted(r) /\ iteration[r] = 100

\* C6 as claimed: the counter is incremented only for requests that completed,
\* so a run that has ended raised it by the number of its completed requests.
C6_CountsCompletedRequests ==
    \A r \in Runs :
        pc[r] = "done" => Count - startCount[r] = completed[r]

\* C6 as amended: the counter goes up by exactly 1 per iteration, before the
\* iteration's request is issued: with no other run interleaved it exceeds its
\* value at the run's start by the number of requests issued (one more while
\* meta-cognition holds the request back), which is the number of completed
\* requests whenever the run is between two iterations.
C6_CountsIssuedRequests ==
    \A r \in Runs :
        pc[r] \notin {"none", "created"} =>
            /\ Count - startCount[r] =
                  requests[r] + (IF pc[r] = "meta" THEN 1 ELSE 0)
            /\ completed[r] <= requests[r]
            /\ requests[r] <= completed[r] + 1
            /\ pc[r] \in {"gate", "delaying"} =>
                  Count - startCount[r] = completed[r]

\* A later run whose second request failed: counted, though never completed.
C6_Witness ==
    \E r \in Runs :
        /\ pc[r] = "done"
        /\ exc[r] # "none"
        /\ startCount[r] > 0
        /\ completed[r] = 1
        /\ Count - startCount[r] = 2

\* C7: the tunable state is reset when a run starts, so a run that completes
\* on its first iteration ends with llmRequestCount = 1 and no model scores.
C7_ResetAtRunStart ==
    \A r \in Runs :
        (pc[r] = "done" /\ termAt[r] = 1) =>
            /\ Count = 1
            /\ taskState.modelScores = <<>>

\* n is an exact multiple of f
Multiple(n, f) == \E k \in 0..n : n = k * f

\* C8: in the step of a run that increments llmRequestCount, meta-cognition
\* is invoked if and only if the new value is an exact multiple of
\* metaFrequency.
C8_MetaIffMultiple ==
    [][\A r \in Runs :
          (pc'[r] # pc[r] /\ Count' = Count + 1) =>
              (pc'[r] = "meta" <=>
                  Multiple(Count', ParseInt(taskState.metaFrequency).val))]_vars

\* Meta-cognition invoked on the tenth request with metaFrequency 10.
C8_Witness ==
    \E r \in Runs :
        /\ pc[r] = "meta"
        /\ taskState.metaFrequency = <<"1", "0">>
        /\ Count = 10

\* C9: when spawnMetaThought throws, the iteration goes on to its request, no
\* event is yielded for it, and nothing else of the run or of the tunable
\* state differs from a call that returned without changing anything.
C9_MetaFailureSwallowed ==
    [][\A r \in Runs :
          (pc[r] = "meta" /\ lastMeta'[r] = "threw") =>
              /\ pc'[r] = "stream"
              /\ requests'[r] = requests[r] + 1
              /\ out'[r] = out[r]
              /\ exc'[r] = "none"
              /\ UNCHANGED <<taskState, iteration, isComplete, messages>>]_vars

\* The iteration whose meta-cognition call threw reached a terminal tool call.
C9_Witness ==
    \E r \in Runs : lastMeta[r] = "threw" /\ pc[r] = "yieldTerm"

\* C10: an exception of the transport leaves the run with exactly one error
\* event made by the loop, wrapping the cause, as its last event, and from
\* then on the run issues no request and yields nothing.
C10_ExceptionEndsRun ==
    /\ [](\A r \in Runs :
            exc[r] # "none" =>
                /\ pc[r] \in {"yieldErr", "done"}
                /\ Last(out[r]).type = "error"
                /\ Last(out[r]).output = <<"Agent execution failed: ", exc[r]>>
                /\ Cardinality({i \in Markers(out[r]) : out[r][i].type = "error"}) = 1)
    /\ [][\A r \in Runs :
            (exc[r] # "none" /\ exc'[r] = exc[r]) =>
                (requests'[r] = requests[r] /\ out'[r] = out[r])]_vars

\* A run ended by an exception raised after a terminal tool call.
C10_Witness ==
    \E r \in Runs : pc[r] = "done" /\ exc[r] # "none" /\ termAt[r] # 0

\* A string with nothing but blanks in it (the empty string included).
Blank(chars) == \A i \in 1..Len(chars) : chars[i] = " "

\* C11: a call of runTask fails with a validation error exactly when the
\* agent is not an object or the content is not a string with a non-blank
\* character, and the failing call issues no request and changes nothing: the
\* request counter, the agent's instructions, the registry of live tasks and
\* every run are as before.
C11_InvalidCallChangesNothing ==
    [][(runsLeft' # runsLeft) =>
          /\ lastCall'.op = "runTask"
          /\ (lastCall'.result = "validation") <=>
                \/ lastCall'.agentArg.t # "object"
                \/ lastCall'.content.t # "string"
                \/ Blank(lastCall'.content.v)
          /\ (lastCall'.result = "validation") =>
                UNCHANGED <<tunable, local, ghost, caller, logs>>]_vars

\* A call with blank content was rejected while a run was in progress, its
\* first request issued.
C11_Witness ==
    /\ lastCall.op = "runTask"
    /\ lastCall.result = "validation"
    /\ lastCall.agentArg = Obj
    /\ lastCall.content = Str(<<" ", " ">>)
    /\ Count = 1
    /\ \E r \in Runs : pc[r] = "stream" /\ Wrapped(r) \in activeTaskMessages

\* C12: runTask never changes the caller's agent: in every step, whatever the
\* call and however far the run has got, the agent's instructions and tool
\* list stay what they were, and the control tools are on the clone only.
C12_AgentNeverMutated ==
    [][/\ agent' = agent
       /\ \A r \in Runs :
            agentDef'[r] # NoAgentDef =>
                /\ Includes(agentDef'[r].tools.v, "task_complete")
                /\ Includes(agentDef'[r].tools.v, "task_fatal_error")
                /\ ~Includes(agent'.tools.v, "task_complete")]_vars

\* C13: the pacing wait is entered only from the gate of an iteration, and
\* there if and only if the iteration is not the first of its run and the
\* thought delay configured at that moment is positive; a run that is waiting
\* has made its first request already.
C13_PacingWaitIffLaterAndPositive ==
    /\ [](\A r \in Runs :
            pc[r] = "delaying" =>
                /\ iteration[r] > 1
                /\ requests[r] = iteration[r] - 1)
    /\ [][\A r \in Runs :
            /\ (pc'[r] = "delaying" /\ pc[r] # "delaying") => pc[r] = "gate"
            /\ (pc[r] = "gate" /\ pc'[r] # "gate") =>
                  (pc'[r] = "delaying" <=>
                      (iteration[r] > 1 /\ ParseInt(thoughtDelay).val > 0))]_vars

\* A run waits before its second request, the delay being '2'.
C13_Witness ==
    \E r \in Runs :
        /\ pc[r] = "delaying"
        /\ iteration[r] = 2
        /\ thoughtDelay = <<"2">>

\* The result a terminal marker stands for: status 'complete' with the result
\* text for task_complete, status 'fatal_error' with the error text for
\* task_fatal_error and for an error event.
Outcome(e) ==
    [status |-> IF e.type = "task_complete" THEN "complete" ELSE "fatal_error",
     text |-> e.output]

RECURSIVE RunResultsOf(_)
RunResultsOf(s) ==
    IF s = <<>> THEN <<>>
    ELSE IF IsMarker(Head(s))
         THEN <<Outcome(Head(s))>> \o RunResultsOf(Tail(s))
         ELSE RunResultsOf(Tail(s))

\* The results a run's stream gives rise to, one per terminal marker.
RunResults(r) == RunResultsOf(out[r])

\* The run saw a call of the given control tool.
Called(r, tool) ==
    \E i \in 1..Len(out[r]) :
        IsTerminalToolCall(out[r][i]) /\ out[r][i].tool = tool

C16_NotFoundWithoutLiveRun ==
    [][(callsLeft' # callsLeft /\ MessageError(lastCall'.message) = "none"
            /\ lastCall'.handle # NullHandle /\ ~lastCall'.live) =>
          /\ lastCall'.result = "not_found"
          /\ messages' = messages]_vars

\* C17: a call of addMessageToTask whose message has a type other than
\* 'message', a role outside system/user/assistant/developer, or a content
\* that is not a non-empty string ends with a validation error whatever the
\* handle is, known or not, and changes no history.
C17_InvalidMessageRejectedFirst ==
    [][(callsLeft' # callsLeft) =>
          LET m == lastCall'.message
          IN  (\/ m.type # "message"
               \/ m.role \notin {"system", "user", "assistant", "developer"}
               \/ m.content.t # "string"
               \/ m.content.v = <<>>) =>
                  /\ lastCall'.result = "validation"
                  /\ messages' = messages
                  /\ sent' = sent]_vars

\* A message with empty content, passed with a generator that runTask never
\* returned, was rejected with a validation error while a run was suspended
\* at a yield.
C17_Witness ==
    /\ lastCall.op = "addMessageToTask"
    /\ lastCall.result = "validation"
    /\ lastCall.handle = ForeignHandle
    /\ lastCall.message.content = Str(<<>>)
    /\ \E r \in Runs : pc[r] = "yield"

IsInjectedMessage(m) == m.role \notin {"user", "assistant"}
IsInjection(a) == a.kind = "injected"

RECURSIVE Msgs(_)
\* The messages of a sequence of log entries.
Msgs(log) == IF log = <<>> THEN <<>> ELSE <<Head(log).msg>> \o Msgs(Tail(log))

RECURSIVE Before(_, _)
\* The entries of a log made while fewer than n requests had been issued.
Before(log, n) ==
    IF log = <<>> THEN <<>>
    ELSE IF Head(log).req < n
         THEN <<Head(log)>> \o Before(Tail(log), n)
         ELSE Before(Tail(log), n)

C18_SettersValidate ==
    /\ [](~ParseInt(taskState.metaFrequency).nan
            /\ ParseInt(taskState.metaFrequency).val # 0)
    /\ [][(callsLeft' # callsLeft) =>
            LET c == lastCall'
            IN  /\ c.op = "setMetaFrequency" =>
                      IF c.arg \in { <<"1">>, <<"5">>, <<"1", "0">> }
                      THEN c.result = "ok" /\ GetMetaFrequency(taskState') = c.arg
                      ELSE c.result = "validation" /\ UNCHANGED tunable
                /\ c.op = "setThoughtDelay" =>
                      IF c.arg \in { <<"0">>, <<"2">> }
                      THEN c.result = "ok" /\ GetThoughtDelay(thoughtDelay') = c.arg
                      ELSE c.result = "validation" /\ UNCHANGED tunable
                /\ c.op = "setModelScore" =>
                      IF c.arg \in 0..100
                      THEN c.result = "ok"
                           /\ GetModelScore(taskState', c.id) = c.arg
                      ELSE c.result = "validation" /\ UNCHANGED tunable]_vars

\* setMetaFrequency('0') was rejected during a run, after a score of 100 had
\* been set, and the frequency is still '5'.
C18_Witness ==
    /\ lastCall.op = "setMetaFrequency"
    /\ lastCall.arg = <<"0">>
    /\ lastCall.result = "validation"
    /\ GetModelScore(taskState, "model-a") = 100
    /\ taskState.metaFrequency = <<"5">>
    /\ \E r \in Runs : pc[r] = "stream"

RECURSIVE IsSubseq(_, _)
\* The elements of a occur in b, in the order of a.
IsSubseq(a, b) ==
    IF a = <<>> THEN TRUE
    ELSE IF b = <<>> THEN FALSE
    ELSE IF Head(a) = Head(b) THEN IsSubseq(Tail(a), Tail(b))
    ELSE IsSubseq(a, Tail(b))

Occurrences(s, m) == Cardinality({i \in 1..Len(s) : s[i] = m})

\* The same messages, each as many times, in whatever order.
SameMessages(a, b) ==
    /\ Len(a) = Len(b)
    /\ \A i \in 1..Len(a) : Occurrences(a, a[i]) = Occurrences(b, a[i])

\* What the claim wants in the history of the n-th request: the user message,
\* the assistant messages of requests 1..n-1, the messages injected before
\* iteration n began.
IsDueAt(a, n) ==
    \/ a.kind = "user"
    \/ a.kind = "assistant" /\ a.req < n
    \/ a.kind = "injected" /\ a.iter < n

RECURSIVE Due(_, _)
Due(log, n) ==
    IF log = <<>> THEN <<>>
    ELSE IF IsDueAt(Head(log), n)
         THEN <<Head(log)>> \o Due(Tail(log), n)
         ELSE Due(Tail(log), n)

IsNotHeld(a) == ~a.held

\* C20 as claimed: the history handed to the n-th request contains the initial
\* user message, the assistant messages of requests 1..n-1 and the messages
\* injected before iteration n began, none missing, in the order in which they
\* arrived.
C20_ArrivalOrder ==
    \A r \in Runs : \A n \in 1..Len(sent[r]) :
        IsSubseq(Msgs(Due(arrivals[r], n)), sent[r][n])

\* C20 as amended: the history handed to the n-th request consists of exactly
\* the initial user message, which comes first, the assistant messages of
\* requests 1..n-1 and the injected messages accepted before the request was
\* issued, each once; they stand in order of arrival except that a message
\* injected while the consumer holds a response-output event stands before
\* that event's assistant message, which is recorded when the consumer resumes
\* the run.
C20_AppendOrder ==
    \A r \in Runs : \A n \in 1..Len(sent[r]) :
        /\ Head(sent[r][n]) = Head(arrivals[r]).msg
        /\ Head(arrivals[r]).kind = "user"
        /\ SameMessages(sent[r][n], Msgs(Before(arrivals[r], n)))
        /\ IsSubseq(Msgs(Due(SelectSeq(arrivals[r], IsNotHeld), n)), sent[r][n])
        /\ IsSubseq(Msgs(SelectSeq(Before(arrivals[r], n), IsInjection)), sent[r][n])

\* A message injected while the consumer held the response-output event of
\* the first request stands, in the history of the second request, before the
\* assistant message of that event.
C20_Witness ==
    \E r \in Runs :
        /\ Len(sent[r]) = 2
        /\ Len(sent[r][2]) = 3
        /\ sent[r][2][3] = AssistantMessage
        /\ arrivals[r][2].kind = "assistant"
        /\ arrivals[r][3].held
        /\ sent[r][2][2] = arrivals[r][3].msg

\* ------------------------------------------------------------- termination
\* One run that the consumer drains, in a process configured with a thought
\* delay of 2, against a backend that answers with text or completes the task
\* and need never end the run, the pause gate being closed and opened at any
\* moment.
InitLive ==
    /\ InitWith(<<"5">>, <<"2">>)
    /\ agent = TestAgent
    /\ evBudget = CeilingEvents
    /\ horizon = MaxIterations + 1
    /\ runsLeft = 1
    /\ transport = ReplyOrComplete
    /\ logRounds = 0
    /\ callsLeft = 0

NextLive ==
    \/ RunTaskAlone
    \/ \E r \in Runs : Step(r)
    \/ Pause
    \/ Resume

\* What the run is promised: the consumer keeps asking for the next event,
\* every pacing wait, every meta-cognition call and every transport stream
\* comes to its end (each is a step of the run that stays possible until it is
\* taken), a closed gate is opened again, and a run waiting at a gate that is
\* open again and again gets through.
Fairness ==
    /\ \A r \in Runs : WF_vars(Step(r))
    /\ \A r \in Runs : SF_vars(GateOpen(r))
    /\ WF_vars(Resume)

SpecLive == InitLive /\ [][NextLive]_vars /\ Fairness

\* C21: a run never goes beyond its hundredth iteration and, the gate being
\* opened again whenever it is closed and every wait, meta-cognition call and
\* transport stream coming to its end, a run that was created ends: its stream
\* is exhausted.
C21_RunEnds ==
    /\ [](\A r \in Runs : iteration[r] <= MaxIterations)
    /\ \A r \in Runs : (pc[r] = "created") ~> (pc[r] = "done")

\* A run ended by running out of iterations: a hundred of them, no terminal
\* tool call, no exception.
C21_Witness ==
    \E r \in Runs :
        /\ pc[r] = "done"
        /\ iteration[r] = MaxIterations
        /\ termAt[r] = 0
        /\ exc[r] = "none"

\* C22: the steps of an iteration come in a fixed order: the iteration begins
\* at the pause gate, which is left only while the system is not paused; the
\* pacing wait, when there is one, comes next, with the counter untouched; the
\* counter is incremented by 1 in the step that leaves the gate or the pacing
\* wait, and in no other; meta-cognition is entered only in that step and is
\* followed by the request; a request is issued only after the increment of
\* its iteration.
C22_StepOrder ==
    [][/\ Count' # Count =>
            /\ Count' = Count + 1
            /\ \E q \in Runs : pc[q] \in {"gate", "delaying"}
                                /\ pc'[q] \in {"meta", "stream"}
       /\ \A r \in Runs :
            /\ (iteration'[r] = iteration[r] + 1) =>
                  (pc'[r] = "gate" /\ Count' = Count)
            /\ (pc[r] = "gate" /\ pc'[r] # "gate") =>
                  (~paused /\ pc'[r] \in {"delaying", "meta", "stream"})
            /\ (pc[r] # "delaying" /\ pc'[r] = "delaying") =>
                  (pc[r] = "gate" /\ Count' = Count)
            /\ (pc[r] = "delaying" /\ pc'[r] # "delaying") =>
                  pc'[r] \in {"meta", "stream"}
            /\ (pc[r] \in {"gate", "delaying"} /\ pc'[r] \in {"gate", "delaying"}) =>
                  (Count' = Count /\ requests'[r] = requests[r])
            /\ (pc[r] # "meta" /\ pc'[r] = "meta") =>
                  /\ pc[r] \in {"gate", "delaying"}
                  /\ Count' = Count + 1
                  /\ requests'[r] = requests[r]
            /\ (pc[r] = "meta" /\ pc'[r] # "meta") =>
                  /\ pc'[r] = "stream"
                  /\ requests'[r] = requests[r] + 1
                  /\ Count' = Count
            /\ (requests'[r] = requests[r] + 1) =>
                  /\ pc[r] \in {"gate", "delaying", "meta"}
                  /\ pc'[r] = "stream"
                  /\ pc[r] # "meta" => Count' = Count + 1]_vars

\* The fifth iteration of a run is in its meta-cognition call, the pause
\* having been set meanwhile: it went through the gate, the pacing wait of 2
\* and the increment to 5, and its request is still to come.
C22_Witness ==
    \E r \in Runs :
        /\ pc[r] = "meta"
        /\ iteration[r] = 5
        /\ Count = 5
        /\ requests[r] = 4
        /\ thoughtDelay = <<"2">>
        /\ paused

IsPassedThrough(e) == ~IsMarker(e)

\* C23: what a run has yielded, the events made by the loop itself
\* (task_complete, task_fatal_error, error) taken out, is exactly the sequence
\* of the events the transport produced for the run: each once, as produced,
\* in the order produced.
C23_PassThrough ==
    \A r \in Runs : SelectSeq(out[r], IsPassedThrough) = produced[r]

\* A run that ended after a call of task_complete by the backend and an error
\* event of the transport's own: four events yielded, two of them produced by
\* the transport.
C23_Witness ==
    \E r \in Runs :
        /\ pc[r] = "done"
        /\ Len(produced[r]) = 2
        /\ Len(out[r]) = 4
        /\ \E i \in 1..2 : produced[r][i].type = "error"
        /\ \E i \in 1..2 : IsTerminalToolCall(produced[r][i])

\* A tool_done event that names one of the two control tools, whatever else
\* it carries.
NamesControlTool(e) == e.type = "tool_done" /\ e.tool \in TerminalTools

\* C24: when the run is resumed after a tool_done event of the transport that
\* names task_complete or task_fatal_error, whatever other fields the event
\* carries, the run is marked complete and an event of the same name, made by
\* the loop, is yielded next.
C24_ControlCallCompletes ==
    [][\A r \in Runs :
          (pc[r] = "yield" /\ pc'[r] \notin {"yield", "done"}
               /\ NamesControlTool(cur[r])) =>
              /\ isComplete'[r]
              /\ out'[r] = Append(out[r], Last(out'[r]))
              /\ Last(out'[r]).by = "loop"
              /\ Last(out'[r]).type = cur[r].tool]_vars

\* One run against a backend that calls tools, in a process configured with a
\* thought delay of 2.
InitTools ==
    /\ InitWith(<<"1", "0">>, <<"2">>)
    /\ agent = TestAgent
    /\ evBudget = MaxEvents
    /\ horizon = ShortRounds
    /\ runsLeft = 1
    /\ transport = ToolCalls
    /\ logRounds = 0
    /\ callsLeft = 0

NextTools ==
    \/ RunTaskAlone
    \/ \E r \in Runs : StepWithoutMeta(r)

SpecTools == InitTools /\ [][NextTools]_vars

\* C25: every task_complete or task_fatal_error event made by the loop stands
\* in the run's output right after a tool_done event of the transport that
\* names the tool of that type, and its result is that tool call's output, or
\* the empty string when the call has no output.
C25_TerminalEventFollowsCall ==
    \A r \in Runs : \A i \in 1..Len(out[r]) :
        (IsMarker(out[r][i]) /\ out[r][i].type \in TerminalTools) =>
            /\ i > 1
            /\ out[r][i - 1].by = "transport"
            /\ out[r][i - 1].type = "tool_done"
            /\ out[r][i - 1].tool = out[r][i].type
            /\ out[r][i].output =
                  (IF out[r][i - 1].output = "undefined" THEN ""
                   ELSE out[r][i - 1].output)

\* A call of task_fatal_error whose result has no output was followed by a
\* task_fatal_error event with the empty string, after a call of another tool.
C25_Witness ==
    \E r \in Runs :
        /\ Len(out[r]) = 3
        /\ out[r][1].tool = "other_tool"
        /\ out[r][2].tool = "task_fatal_error"
        /\ out[r][2].output = Undefined
        /\ out[r][3].type = "task_fatal_error"
        /\ out[r][3].output = ""

\* C26: the history of a run starts as the one user message holding the
\* content given to runTask, and from then on every change of it adds exactly
\* one message at its end, all the others staying where they were: the
\* assistant message of a response-output event the run is resumed after, or
\* the message of an accepted addMessageToTask call; so the initial user
\* message stays first.
C26_AppendOnly ==
    /\ [](\A r \in Runs :
            pc[r] # "none" =>
                /\ messages[r] # <<>>
                /\ Head(messages[r]).role = "user"
                /\ Head(messages[r]) = Head(arrivals[r]).msg)
    /\ [][\A r \in Runs :
            IF pc[r] # "created" /\ pc'[r] = "created"
            THEN messages'[r] = <<[type |-> "message", role |-> "user",
                                   content |-> lastCall'.content.v]>>
            ELSE messages'[r] # messages[r] =>
                    /\ Len(messages'[r]) = Len(messages[r]) + 1
                    /\ SubSeq(messages'[r], 1, Len(messages[r])) = messages[r]
                    /\ \/ /\ Last(messages'[r]).role = "assistant"
                          /\ pc[r] \in {"yield", "yieldTerm"}
                          /\ cur[r].type = "response_output"
                          /\ callsLeft' = callsLeft
                       \/ /\ callsLeft' = callsLeft - 1
                          /\ lastCall'.result = "ok"
                          /\ Last(messages'[r]) = Stored(lastCall'.message)]_vars

\* A run in its second request with a history of four messages: the user
\* message, then an assistant message and two injected messages.
C26_Witness ==
    \E r \in Runs :
        /\ pc[r] = "stream"
        /\ requests[r] = 2
        /\ Len(messages[r]) = 4
        /\ messages[r][1] = UserMessage
        /\ \E i \in 2..4 : messages[r][i] = AssistantMessage
        /\ callsLeft = MaxCalls - 2

\* ---------------------------------------------------------- concurrent runs
\* runTask called on a handle not used before: the runs of the two handles
\* can be in progress together.
StartRun(r) ==
    /\ pc[r] = "none"
    /\ RunTask(r)

\* spawnMetaThought settles without having revised the meta frequency.
MetaReturnUnrevised(r) ==
    /\ MetaReturn(r)
    /\ taskState'.metaFrequency = taskState.metaFrequency

\* Two runs started at any moment and interleaved at their suspension points,
\* in a process configured with meta frequency 5 and a thought delay of 2,
\* against a backend that answers with text or completes the task.
InitPair ==
    /\ InitWith(<<"5">>, <<"2">>)
    /\ agent = TestAgent
    /\ evBudget = CeilingEvents
    /\ horizon = MaxRounds
    /\ runsLeft = Cardinality(Runs)
    /\ transport = ReplyOrComplete
    /\ logRounds = MaxRounds
    /\ callsLeft = 0

NextPair ==
    \/ \E r \in Runs : StartRun(r)
    \/ \E r \in Runs : Begin(r)
    \/ \E r \in Runs : GateOpen(r)
    \/ \E r \in Runs : DelayReturn(r)
    \/ \E r \in Runs : MetaReturnUnrevised(r)
    \/ \E r \in Runs : TransportYield(r)
    \/ \E r \in Runs : ResumeEvent(r)
    \/ \E r \in Runs : ResumeTerminal(r)
    \/ \E r \in Runs : TransportEnd(r)
    \/ \E r \in Runs : TransportThrow(r)
    \/ \E r \in Runs : ResumeError(r)

SpecPair == InitPair /\ [][NextPair]_vars

\* The generator of the run has started and has not returned.
InProgress(r) == pc[r] \notin {"none", "created", "done"}

\* C27: while a run is in progress, no step makes llmRequestCount smaller,
\* whether the step is the run's own or that of another run starting,
\* iterating or finishing; the counter is never below its value at the start
\* of a run in progress.
C27_CounterNeverDecreases ==
    /\ [](\A r \in Runs : InProgress(r) => Count >= startCount[r])
    /\ [][\A r \in Runs : (InProgress(r) /\ InProgress(r)') => Count' >= Count]_vars

\* The second run started, and made a request, while the first was in its
\* second iteration; the first has gone on since and the second has finished.
C27_Witness ==
    /\ InProgress(1)
    /\ iteration[1] = 3
    /\ startCount[2] = 2
    /\ pc[2] = "done"
    /\ Count = 4

RECURSIVE SumOf(_, _)
\* The sum of f over the set S.
SumOf(f, S) ==
    IF S = {} THEN 0
    ELSE LET x == CHOOSE y \in S : TRUE
         IN  f[x] + SumOf(f, S \ {x})

\* The run has begun an iteration and is held at the pause gate or in the
\* pacing wait, before the increment.
Waiting(r) == pc[r] \in {"gate", "delaying"}

\* C28: with two runs interleaved, the meta frequency constant at 5 and the
\* counter starting at 0, llmRequestCount is the number of iterations begun
\* by the two runs together, those still held before their increment (at the
\* pause gate or in the pacing wait) not yet counted, and the meta-cognition
\* calls of the two runs together number floor(counter / 5), whichever run
\* made them; when both runs have ended the counter is the total of their
\* iterations.
C28_OneCounterForAllRuns ==
    LET f == ParseInt(taskState.metaFrequency).val
        begun == SumOf(iteration, Runs)
        held == Cardinality({r \in Runs : Waiting(r)})
    IN  /\ f = 5
        /\ Count = begun - held
        /\ SumOf(metaCalls, Runs) = Count \div f
        /\ (\A r \in Runs : pc[r] = "done") =>
              /\ Count = begun
              /\ SumOf(metaCalls, Runs) = begun \div f

\* Both runs have ended after three iterations each; the fifth request of the
\* process fell to the second run, which made the one meta-cognition call.
C28_Witness ==
    /\ \A r \in Runs : pc[r] = "done" /\ iteration[r] = 3
    /\ Count = 6
    /\ metaCalls[1] = 0
    /\ metaCalls[2] = 1

\* C29: in every step in which a run issues a request to the transport, the
\* system is not paused, also when the pause was set during the pacing wait
\* or the meta-cognition call of that iteration.
C29_NoRequestWhilePaused ==
    [][\A r \in Runs : (requests'[r] = requests[r] + 1) => ~paused]_vars

====
